---- MODULE Spec2Model ----
(***************************************************************************)
(* DoubleKeyTable (src/double_key_table.py): a two-level hash table keyed  *)
(* by (key1, key2).  The outer array holds None or (key1, inner table);    *)
(* the inner table is the LinearProbeTable of data_structures.hash_table,  *)
(* which is described by section 4.1 of the specification.                 *)
(*                                                                         *)
(* Python positions are 0-based; TLA+ sequences are 1-based, so the slot   *)
(* at position p is array[p + 1] and the capacity at size_index i is       *)
(* TABLE_SIZES[i + 1].  Keys are sequences of symbol codes (ord(char)).    *)
(*                                                                         *)
(* MountainOrganiser (src/mountain_organiser.py): a list of (length, name) *)
(* kept sorted by bisect.  Trail (src/trail.py): a tree of TrailSeries and *)
(* TrailSplit nodes and the enumeration of the paths through it.           *)
(***************************************************************************)
EXTENDS Integers, Sequences, FiniteSets, TLC

VARIABLES sizes, internal_sizes, array, count, size_index, last, prev, nops,
          mountains, added, trail, stack, personality

vars == <<sizes, internal_sizes, array, count, size_index, last, prev, nops,
          mountains, added, trail, stack, personality>>

\* ---------------------------------------------------------------- bounds
\* Number of distinct first keys, second keys and values the calls draw from.
NumK1 == 3
NumK2 == 2
MaxVal == 2

\* Number of calls made on one table.
MaxOps == 6

\* ------------------------------------------------------------- constants
DEFAULT_TABLE_SIZES ==
  <<5, 13, 29, 53, 97, 193, 389, 769, 1543, 3079, 6151, 12289, 24593, 49157,
    98317, 196613, 393241, 786433, 1572869>>

\* The schedules the constructor sets; an argument that is None is <<>>.
TABLE_SIZES == IF sizes = <<>> THEN DEFAULT_TABLE_SIZES ELSE sizes

INTERNAL_TABLE_SIZES == IF internal_sizes = <<>> THEN TABLE_SIZES ELSE internal_sizes

HASH_BASE == 31

HASH_SEED == 31415

\* "", "a", "n", "ab", "f" as sequences of ord() codes
K1List == << <<>>, <<97>>, <<110>>, <<97, 98>>, <<102>> >>

\* "x", "y", "}" as sequences of ord() codes
K2List == << <<120>>, <<121>>, <<125>> >>

K1Keys == {K1List[i] : i \in 1..NumK1}

K2Keys == {K2List[i] : i \in 1..NumK2}

Values == 1..MaxVal

\* ------------------------------------------------------------ primitives
None == <<>>

ArrayR(n) == [i \in 1..n |-> None]

\* The loop shared by hash1 and hash2.  `a % (size - 1)` divides by zero
\* when the capacity is 1 and the key has at least one symbol.
RECURSIVE hash_loop(_, _, _, _, _)
hash_loop(key, i, value, a, size) ==
  IF i > Len(key) THEN [err |-> "none", value |-> value]
  ELSE IF size - 1 = 0 THEN [err |-> "ZeroDivisionError", value |-> 0]
  ELSE hash_loop(key, i + 1, (key[i] + a * value) % size,
                 (a * HASH_BASE) % (size - 1), size)

hash1(key, table_size) == hash_loop(key, 1, 0, HASH_SEED, table_size)

hash2(key, sub_table) == hash_loop(key, 1, 0, HASH_SEED, Len(sub_table.array))

\* ------------------------------------------- inner store (LinearProbeTable)
NewInner(schedule) == [array |-> ArrayR(schedule[1]), count |-> 0, size_index |-> 0]

RECURSIVE InnerScan(_, _, _, _, _)
InnerScan(arr, key, pos, n, is_insert) ==
  IF n >= Len(arr)
    THEN [err |-> IF is_insert THEN "FullError" ELSE "KeyError", pos |-> 0]
  ELSE IF arr[pos + 1] = None
    THEN IF is_insert THEN [err |-> "none", pos |-> pos]
         ELSE [err |-> "KeyError", pos |-> 0]
  ELSE IF arr[pos + 1][1] = key THEN [err |-> "none", pos |-> pos]
  ELSE InnerScan(arr, key, (pos + 1) % Len(arr), n + 1, is_insert)

InnerProbe(inner, key, is_insert) ==
  LET h == hash2(key, inner)
  IN  IF h.err # "none" THEN [err |-> h.err, pos |-> 0]
      ELSE InnerScan(inner.array, key, h.value, 0, is_insert)

\* Re-insertion of the old array, slot by slot, with full probing: a pair
\* that claims an empty slot is counted, one that finds its key is not.
RECURSIVE InnerReinsert(_, _, _)
InnerReinsert(acc, old, i) ==
  IF i > Len(old) THEN acc
  ELSE IF old[i] = None THEN InnerReinsert(acc, old, i + 1)
  ELSE LET p == InnerProbe(acc, old[i][1], TRUE)
       IN  IF p.err # "none" THEN InnerReinsert(acc, old, i + 1)
           ELSE InnerReinsert(
                  [acc EXCEPT !.array[p.pos + 1] = old[i],
                              !.count = IF acc.array[p.pos + 1] = None
                                        THEN @ + 1 ELSE @],
                  old, i + 1)

InnerGrow(inner, schedule) ==
  IF inner.size_index + 1 >= Len(schedule) THEN inner
  ELSE InnerReinsert([array |-> ArrayR(schedule[inner.size_index + 2]),
                      count |-> 0,
                      size_index |-> inner.size_index + 1],
                     inner.array, 1)

InnerSet(inner, key, data, schedule) ==
  LET p == InnerProbe(inner, key, TRUE)
  IN  IF p.err # "none" THEN [err |-> p.err, inner |-> inner]
      ELSE LET claimed == inner.array[p.pos + 1] = None
               put == [inner EXCEPT !.array[p.pos + 1] = <<key, data>>,
                                    !.count = IF claimed THEN @ + 1 ELSE @]
           IN  [err |-> "none",
                inner |-> IF 2 * put.count > Len(put.array)
                          THEN InnerGrow(put, schedule) ELSE put]

InnerGet(inner, key) ==
  LET p == InnerProbe(inner, key, FALSE)
  IN  IF p.err # "none" THEN [err |-> p.err, ret |-> <<>>]
      ELSE [err |-> "none", ret |-> <<inner.array[p.pos + 1][2]>>]

InnerDelete(inner, key) ==
  LET p == InnerProbe(inner, key, FALSE)
  IN  IF p.err # "none" THEN [err |-> p.err, inner |-> inner]
      ELSE [err |-> "none",
            inner |-> [inner EXCEPT !.array[p.pos + 1] = None, !.count = @ - 1]]

InnerLen(inner) == inner.count

RECURSIVE InnerEnum(_, _, _)
InnerEnum(arr, i, field) ==
  IF i > Len(arr) THEN <<>>
  ELSE IF arr[i] = None THEN InnerEnum(arr, i + 1, field)
  ELSE <<arr[i][field]>> \o InnerEnum(arr, i + 1, field)

InnerKeys(inner) == InnerEnum(inner.array, 1, 1)

InnerValues(inner) == InnerEnum(inner.array, 1, 2)

\* ------------------------------------------------------------ outer table
\* The table object: the three fields the methods read and assign.
Self == [array |-> array, count |-> count, size_index |-> size_index]

table_size(t) == Len(t.array)

Raise(t, e) == [t |-> t, err |-> e, position1 |-> 0, position2 |-> 0]

RECURSIVE probe_loop(_, _, _, _, _, _)
probe_loop(t, key1, key2, is_insert, position1, probe_count) ==
  IF t.size_index >= Len(TABLE_SIZES) THEN Raise(t, "IndexError")
  ELSE IF ~(probe_count < TABLE_SIZES[t.size_index + 1])
    THEN Raise(t, IF is_insert THEN "FullError" ELSE "KeyError")
  ELSE IF t.array[position1 + 1] = None
    THEN IF is_insert
         THEN LET low_level_table == NewInner(INTERNAL_TABLE_SIZES)
                  t2 == [t EXCEPT !.array[position1 + 1] = <<key1, low_level_table>>,
                                  !.count = @ + 1]
                  h == hash2(key2, low_level_table)
              IN  IF h.err # "none" THEN Raise(t2, h.err)
                  ELSE [t |-> t2, err |-> "none",
                        position1 |-> position1, position2 |-> h.value]
         ELSE Raise(t, "KeyError")
  ELSE IF t.array[position1 + 1][1] = key1
    THEN LET p == InnerProbe(t.array[position1 + 1][2], key2, is_insert)
         IN  IF p.err # "none" THEN Raise(t, p.err)
             ELSE [t |-> t, err |-> "none",
                   position1 |-> position1, position2 |-> p.pos]
  ELSE probe_loop(t, key1, key2, is_insert,
                  (position1 + 1) % table_size(t), probe_count + 1)

_linear_probe(t, key1, key2, is_insert) ==
  LET h == hash1(key1, table_size(t))
  IN  IF h.err # "none" THEN Raise(t, h.err)
      ELSE probe_loop(t, key1, key2, is_insert, h.value, 0)

RECURSIVE rehash_loop(_, _, _)
rehash_loop(t, old_array, i) ==
  IF i > Len(old_array) THEN [t |-> t, err |-> "none"]
  ELSE IF old_array[i] = None THEN rehash_loop(t, old_array, i + 1)
  ELSE LET pos == hash1(old_array[i][1], table_size(t))
       IN  IF pos.err # "none" THEN [t |-> t, err |-> pos.err]
           ELSE rehash_loop([t EXCEPT !.array[pos.value + 1] = old_array[i]],
                            old_array, i + 1)

_rehash(t) ==
  LET idx == t.size_index + 1
  IN  IF idx = Len(TABLE_SIZES)
        THEN [t |-> [t EXCEPT !.size_index = idx], err |-> "none"]
      ELSE IF idx > Len(TABLE_SIZES)
        THEN [t |-> [t EXCEPT !.size_index = idx], err |-> "IndexError"]
      ELSE rehash_loop([array |-> ArrayR(TABLE_SIZES[idx + 1]),
                        count |-> 0,
                        size_index |-> idx],
                       t.array, 1)

Result(t, e, kind, ret) == [t |-> t, err |-> e, kind |-> kind, ret |-> ret]

__getitem__(t, key1, key2) ==
  LET p == _linear_probe(t, key1, key2, TRUE)
  IN  IF p.err # "none" THEN Result(p.t, p.err, "raise", <<>>)
      ELSE LET g == InnerGet(p.t.array[p.position1 + 1][2], key2)
           IN  IF g.err # "none" THEN Result(p.t, g.err, "raise", <<>>)
               ELSE Result(p.t, "none", "value", g.ret)

__setitem__(t, key1, key2, data) ==
  LET p == _linear_probe(t, key1, key2, TRUE)
  IN  IF p.err # "none" THEN Result(p.t, p.err, "raise", <<>>)
      ELSE LET slot == p.t.array[p.position1 + 1]
               s == InnerSet(slot[2], key2, data, INTERNAL_TABLE_SIZES)
               t2 == [p.t EXCEPT !.array[p.position1 + 1] = <<slot[1], s.inner>>]
           IN  IF s.err # "none" THEN Result(p.t, s.err, "raise", <<>>)
               ELSE IF 2 * t2.count > table_size(t2)
                 THEN LET r == _rehash(t2)
                      IN  Result(r.t, r.err,
                                 IF r.err = "none" THEN "None" ELSE "raise", <<>>)
               ELSE Result(t2, "none", "None", <<>>)

__delitem__(t, key1, key2) ==
  LET p == _linear_probe(t, key1, key2, FALSE)
  IN  IF p.err # "none" THEN Result(p.t, p.err, "raise", <<>>)
      ELSE LET slot == p.t.array[p.position1 + 1]
               d == InnerDelete(slot[2], key2)
               t2 == [p.t EXCEPT !.array[p.position1 + 1] = <<slot[1], d.inner>>]
           IN  IF d.err # "none" THEN Result(p.t, d.err, "raise", <<>>)
               ELSE IF InnerLen(d.inner) = 0
                 THEN Result([t2 EXCEPT !.array[p.position1 + 1] = None,
                                        !.count = @ - 1], "none", "None", <<>>)
               ELSE Result(t2, "none", "None", <<>>)

contains(t, key1, key2) ==
  LET g == __getitem__(t, key1, key2)
  IN  IF g.err = "KeyError" THEN Result(g.t, "none", "bool", <<FALSE>>)
      ELSE IF g.err = "none" THEN Result(g.t, "none", "bool", <<TRUE>>)
      ELSE g

\* keys() and values() with key = None, and their lazy forms
RECURSIVE keys_all(_, _)
keys_all(t, x) ==
  IF x > table_size(t) THEN <<>>
  ELSE IF t.array[x] = None THEN keys_all(t, x + 1)
  ELSE <<t.array[x][1]>> \o keys_all(t, x + 1)

keys(t) == keys_all(t, 1)

iter_keys(t) == keys_all(t, 1)

RECURSIVE values_all(_, _)
values_all(t, x) ==
  IF x > table_size(t) THEN <<>>
  ELSE IF t.array[x] = None THEN values_all(t, x + 1)
  ELSE InnerValues(t.array[x][2]) \o values_all(t, x + 1)

values(t) == values_all(t, 1)

\* iter_values() walks the inner arrays itself
RECURSIVE iter_values_all(_, _)
iter_values_all(t, x) ==
  IF x > table_size(t) THEN <<>>
  ELSE IF t.array[x] = None THEN iter_values_all(t, x + 1)
  ELSE InnerEnum(t.array[x][2].array, 1, 2) \o iter_values_all(t, x + 1)

iter_values(t) == iter_values_all(t, 1)

\* a length that reports the occupied-count of the outer table
len_is_count(t) == t.count

__len__(t) == Len(values(t))

\* keys(key) and values(key) with a first key given: field 1 lists the
\* second keys of the inner table, field 2 its values.
RECURSIVE scoped_loop(_, _, _, _, _)
scoped_loop(t, key, position, n, field) ==
  IF n >= table_size(t) THEN Result(t, "none", "None", <<>>)
  ELSE IF t.array[position + 1] = None THEN Result(t, "TypeError", "raise", <<>>)
  ELSE IF t.array[position + 1][1] = key
    THEN Result(t, "none", "list", InnerEnum(t.array[position + 1][2].array, 1, field))
  ELSE scoped_loop(t, key, (position + 1) % table_size(t), n + 1, field)

keys_of(t, key) ==
  LET position == hash1(key, table_size(t))
  IN  IF position.err # "none" THEN Result(t, position.err, "raise", <<>>)
      ELSE scoped_loop(t, key, position.value, 0, 1)

values_of(t, key) ==
  LET position == hash1(key, table_size(t))
  IN  IF position.err # "none" THEN Result(t, position.err, "raise", <<>>)
      ELSE scoped_loop(t, key, position.value, 0, 2)

RECURSIVE iter_scoped(_, _, _, _)
iter_scoped(t, key, x, field) ==
  IF x > table_size(t) THEN <<>>
  ELSE IF t.array[x] # None /\ t.array[x][1] = key
    THEN InnerEnum(t.array[x][2].array, 1, field) \o iter_scoped(t, key, x + 1, field)
  ELSE iter_scoped(t, key, x + 1, field)

iter_keys_of(t, key) == Result(t, "none", "iter", iter_scoped(t, key, 1, 1))

iter_values_of(t, key) == Result(t, "none", "iter", iter_scoped(t, key, 1, 2))

\* ------------------------------------------------------------- the calls
\* One call on the table: `last` records the call and its outcome, `prev` the
\* table as it was before the call, `nops` the number of calls made.
Call(op, key1, key2, data, r) ==
  /\ nops' = nops + 1
  /\ array' = r.t.array
  /\ count' = r.t.count
  /\ size_index' = r.t.size_index
  /\ last' = [op |-> op, key1 |-> key1, key2 |-> key2, data |-> data,
              err |-> r.err, kind |-> r.kind, ret |-> r.ret]
  /\ prev' = Self
  /\ UNCHANGED <<sizes, internal_sizes, mountains, added, trail, stack, personality>>

SetItem ==
  \E key1 \in K1Keys, key2 \in K2Keys, data \in Values :
    /\ nops < MaxOps
    /\ Call("set", key1, key2, data, __setitem__(Self, key1, key2, data))

GetItem ==
  \E key1 \in K1Keys, key2 \in K2Keys :
    /\ nops < MaxOps
    /\ Call("get", key1, key2, 0, __getitem__(Self, key1, key2))

Contains ==
  \E key1 \in K1Keys, key2 \in K2Keys :
    /\ nops < MaxOps
    /\ Call("contains", key1, key2, 0, contains(Self, key1, key2))

DelItem ==
  \E key1 \in K1Keys, key2 \in K2Keys :
    /\ nops < MaxOps
    /\ Call("del", key1, key2, 0, __delitem__(Self, key1, key2))

Keys ==
  \E key1 \in K1Keys :
    /\ nops < MaxOps
    /\ Call("keys", key1, <<>>, 0, keys_of(Self, key1))

IterKeys ==
  \E key1 \in K1Keys :
    /\ nops < MaxOps
    /\ Call("iter_keys", key1, <<>>, 0, iter_keys_of(Self, key1))

ValuesOf ==
  \E key1 \in K1Keys :
    /\ nops < MaxOps
    /\ Call("values", key1, <<>>, 0, values_of(Self, key1))

IterValues ==
  \E key1 \in K1Keys :
    /\ nops < MaxOps
    /\ Call("iter_values", key1, <<>>, 0, iter_values_of(Self, key1))

Next ==
  \/ SetItem
  \/ GetItem
  \/ Contains
  \/ DelItem
  \/ Keys
  \/ IterKeys
  \/ ValuesOf
  \/ IterValues

\* DoubleKeyTable(sizes, internal_sizes)
__init__(sizes_arg, internal_sizes_arg) ==
  /\ sizes = sizes_arg
  /\ internal_sizes = internal_sizes_arg
  /\ count = 0
  /\ nops = 0
  /\ size_index = 0
  /\ array = ArrayR(TABLE_SIZES[1])
  /\ last = [op |-> "init", key1 |-> <<>>, key2 |-> <<>>, data |-> 0,
             err |-> "none", kind |-> "None", ret |-> <<>>]
  /\ prev = [array |-> ArrayR(TABLE_SIZES[1]), count |-> 0, size_index |-> 0]

\* MountainOrganiser(): self.mountains = []; `added` collects the mountains
\* handed to add_mountains.
MountainOrganiser == mountains = <<>> /\ added = {}

\* Trail(): store = None
EmptyTrail ==
  /\ trail = None
  /\ stack = <<>>
  /\ personality = [mountains |-> <<>>, asked |-> <<>>]

InitDefault == __init__(<<>>, <<>>) /\ MountainOrganiser /\ EmptyTrail

InitTwoThree == __init__(<<2, 3>>, <<>>) /\ MountainOrganiser /\ EmptyTrail

InitThree == __init__(<<3>>, <<>>) /\ MountainOrganiser /\ EmptyTrail

InitOneTwo ==
  /\ \/ __init__(<<1, 2>>, <<>>)
     \/ __init__(<<1, 2>>, <<5, 13>>)
  /\ MountainOrganiser
  /\ EmptyTrail

Init == InitDefault \/ InitTwoThree \/ InitThree \/ InitOneTwo

Spec == Init /\ [][Next]_vars

SpecDefault == InitDefault /\ [][Next]_vars

SpecTwoThree == InitTwoThree /\ [][Next]_vars

SpecThree == InitThree /\ [][Next]_vars

SpecOneTwo == InitOneTwo /\ [][Next]_vars

\* set and delete calls only, on a table with the default schedule
NextMutators == SetItem \/ DelItem

SpecMutators == InitDefault /\ [][NextMutators]_vars

\* ------------------------------------------------------ MountainOrganiser
\* Number of mountain names and lengths, and mountains one organiser takes.
NumNames == 2
NumLengths == 2
MaxMountains == 4

\* "a", "b", "aa" as sequences of ord() codes
NameList == << <<97>>, <<98>>, <<97, 97>> >>

Names == {NameList[i] : i \in 1..NumNames}

Lengths == 1..NumLengths

\* A mountain, by the two fields the organiser reads.
Mountain == [name : Names, length : Lengths]

MountainLists ==
  {<<m>> : m \in Mountain} \cup {<<m1, m2>> : m1 \in Mountain, m2 \in Mountain}

\* a < b on str: by code point, a proper prefix first
RECURSIVE str_lt(_, _)
str_lt(a, b) ==
  IF b = <<>> THEN FALSE
  ELSE IF a = <<>> THEN TRUE
  ELSE IF a[1] # b[1] THEN a[1] < b[1]
  ELSE str_lt(Tail(a), Tail(b))

\* x < y on the tuples (length, name)
tuple_lt(x, y) == IF x[1] # y[1] THEN x[1] < y[1] ELSE str_lt(x[2], y[2])

\* bisect.insort(a, x): binary search for the place after the entries <= x
RECURSIVE insort_loop(_, _, _, _)
insort_loop(a, x, lo, hi) ==
  IF lo >= hi THEN lo
  ELSE LET mid == (lo + hi) \div 2
       IN  IF tuple_lt(x, a[mid + 1]) THEN insort_loop(a, x, lo, mid)
           ELSE insort_loop(a, x, mid + 1, hi)

\* a list that takes x at its end
list_append(a, x) == Append(a, x)

insort(a, x) ==
  LET lo == insort_loop(a, x, 0, Len(a))
  IN  SubSeq(a, 1, lo) \o <<x>> \o SubSeq(a, lo + 1, Len(a))

\* bisect.bisect_left(a, x): the place before the entries >= x
RECURSIVE bisect_left(_, _, _, _)
bisect_left(a, x, lo, hi) ==
  IF lo >= hi THEN lo
  ELSE LET mid == (lo + hi) \div 2
       IN  IF tuple_lt(a[mid + 1], x) THEN bisect_left(a, x, mid + 1, hi)
           ELSE bisect_left(a, x, lo, mid)

RECURSIVE add_mountains(_, _)
add_mountains(list, ms) ==
  IF ms = <<>> THEN list
  ELSE add_mountains(insort(list, <<Head(ms).length, Head(ms).name>>), Tail(ms))

cur_position(list, mountain) ==
  LET position == bisect_left(list, <<mountain.length, mountain.name>>, 0, Len(list))
  IN  IF /\ position # Len(list)
         /\ list[position + 1] = <<mountain.length, mountain.name>>
      THEN [err |-> "none", ret |-> position]
      ELSE [err |-> "KeyError", ret |-> 0]

AddMountains ==
  \E ms \in MountainLists :
    /\ Len(mountains) + Len(ms) <= MaxMountains
    /\ mountains' = add_mountains(mountains, ms)
    /\ added' = added \cup {ms[i] : i \in 1..Len(ms)}
    /\ last' = [op |-> "add_mountains", mountains |-> ms, err |-> "none",
                kind |-> "None", ret |-> <<>>]
    /\ UNCHANGED <<sizes, internal_sizes, array, count, size_index, prev, nops, trail,
                   stack, personality>>

CurPosition ==
  \E mountain \in Mountain :
    LET r == cur_position(mountains, mountain)
    IN  /\ last' = [op |-> "cur_position", mountain |-> mountain, err |-> r.err,
                    kind |-> IF r.err = "none" THEN "value" ELSE "raise",
                    ret |-> IF r.err = "none" THEN <<r.ret>> ELSE <<>>]
        /\ UNCHANGED <<sizes, internal_sizes, array, count, size_index, prev, nops,
                       mountains, added, trail, stack, personality>>

NextOrganiser == AddMountains \/ CurPosition

SpecOrganiser == InitDefault /\ [][NextOrganiser]_vars

\* ------------------------------------------------------------------ Trail
\* Number of TrailSeries and TrailSplit nodes of a trail.
MaxNodes == 3

\* The mountains placed on trails: the trail never reads their fields.
TrailMountains == {m \in Mountain : m.length = 1}

\* A Trail is given by its store: None, a TrailSeries or a TrailSplit.
TrailSeries(mountain, following) == <<"TrailSeries", mountain, following>>

TrailSplit(path_top, path_bottom, path_follow) ==
  <<"TrailSplit", path_top, path_bottom, path_follow>>

IsTrailSeries(store) == store # None /\ store[1] = "TrailSeries"

IsTrailSplit(store) == store # None /\ store[1] = "TrailSplit"

\* the trails of exactly n nodes
RECURSIVE TrailsOfSize(_)
TrailsOfSize(n) ==
  IF n = 0 THEN {None}
  ELSE {TrailSeries(m, f) : m \in TrailMountains, f \in TrailsOfSize(n - 1)}
       \cup UNION {UNION {{TrailSplit(t, b, f) : t \in TrailsOfSize(i),
                                                 b \in TrailsOfSize(j),
                                                 f \in TrailsOfSize(n - 1 - i - j)}
                           : j \in 0..(n - 1 - i)}
                    : i \in 0..(n - 1)}

Trails == UNION {TrailsOfSize(n) : n \in 0..MaxNodes}

\* extension that puts the second path in front of the first
extend_reversed(first_set, second_set, join) ==
  IF join THEN first_set \o second_set
  ELSE [n \in 1..(Len(first_set) * Len(second_set)) |->
          second_set[((n - 1) % Len(second_set)) + 1]
            \o first_set[((n - 1) \div Len(second_set)) + 1]]

\* join: the second list after the first; extend: first + second for each
\* first in first_set, for each second in second_set
join_or_extend_paths(first_set, second_set, join) ==
  IF join THEN first_set \o second_set
  ELSE [n \in 1..(Len(first_set) * Len(second_set)) |->
          first_set[((n - 1) \div Len(second_set)) + 1]
            \o second_set[((n - 1) % Len(second_set)) + 1]]

RECURSIVE find_all_paths(_)
find_all_paths(store) ==
  IF store = None THEN <<<<>>>>
  ELSE IF IsTrailSplit(store)
    THEN LET all_paths_top == find_all_paths(store[2])
             all_paths_bottom == find_all_paths(store[3])
             all_paths_follow == find_all_paths(store[4])
             combined_paths == join_or_extend_paths(all_paths_top, all_paths_bottom, TRUE)
         IN  join_or_extend_paths(combined_paths, all_paths_follow, FALSE)
  ELSE join_or_extend_paths(<<<<store[2]>>>>, find_all_paths(store[3]), FALSE)

length_k_paths(store, k) ==
  SelectSeq(find_all_paths(store), LAMBDA path : Len(path) = k)

LengthKPaths ==
  \E k \in 0..MaxNodes :
    /\ last' = [op |-> "length_k_paths", k |-> k, err |-> "none", kind |-> "list",
                ret |-> length_k_paths(trail, k)]
    /\ UNCHANGED <<sizes, internal_sizes, array, count, size_index, prev, nops,
                   mountains, added, trail, stack, personality>>

NextTrail == LengthKPaths

InitTrail ==
  /\ __init__(<<>>, <<>>)
  /\ MountainOrganiser
  /\ trail \in Trails
  /\ stack = <<>>
  /\ personality = [mountains |-> <<>>, asked |-> <<>>]

SpecTrail == InitTrail /\ [][NextTrail]_vars

\* ---------------------------------------------------------- follow_path
\* The stack of follow_path is a Python list used from its end: the top of
\* the stack is the last element.  The personality is a record of the
\* mountains handed to add_mountain and of the answers select_branch gave.

\* drops the part of a split that is walked after the chosen branch
follow_skipped(st, pers, answer) ==
  LET top == st[Len(st)]
      current == top[1]
      branch_visited == top[2]
      below == SubSeq(st, 1, Len(st) - 1)
  IN  IF IsTrailSeries(current)
        THEN [stack |-> Append(below, <<current[3], FALSE>>),
              personality |-> [pers EXCEPT !.mountains = Append(@, current[2])]]
      ELSE IF IsTrailSplit(current)
        THEN IF ~branch_visited
               THEN [stack |-> below \o << <<current, TRUE>>,
                                           <<IF answer THEN current[2] ELSE current[3], FALSE>> >>,
                     personality |-> [pers EXCEPT !.asked = Append(@, answer)]]
               ELSE [stack |-> below, personality |-> pers]
      ELSE [stack |-> below, personality |-> pers]

\* one iteration of the loop of follow_path: pop, then act on what was popped
follow_path_step(st, pers, answer) ==
  LET top == st[Len(st)]
      current == top[1]
      branch_visited == top[2]
      below == SubSeq(st, 1, Len(st) - 1)
  IN  IF IsTrailSeries(current)
        THEN [stack |-> Append(below, <<current[3], FALSE>>),
              personality |-> [pers EXCEPT !.mountains = Append(@, current[2])]]
      ELSE IF IsTrailSplit(current)
        THEN IF ~branch_visited
               THEN [stack |-> below \o << <<current, TRUE>>,
                                           <<IF answer THEN current[2] ELSE current[3], FALSE>> >>,
                     personality |-> [pers EXCEPT !.asked = Append(@, answer)]]
               ELSE [stack |-> Append(below, <<current[4], FALSE>>),
                     personality |-> pers]
      ELSE [stack |-> below, personality |-> pers]

Top == stack[Len(stack)]

FollowUnchanged ==
  UNCHANGED <<sizes, internal_sizes, array, count, size_index, prev, nops,
              mountains, added, trail>>

\* trail.follow_path(personality): stack = [(self.store, False)]
FollowPath ==
  /\ last.op # "follow_path"
  /\ stack' = << <<trail, FALSE>> >>
  /\ last' = [op |-> "follow_path", err |-> "none", kind |-> "None", ret |-> <<>>]
  /\ UNCHANGED personality
  /\ FollowUnchanged

Loop(answer) ==
  LET r == follow_path_step(stack, personality, answer)
  IN  /\ stack' = r.stack
      /\ personality' = r.personality
      /\ UNCHANGED last
      /\ FollowUnchanged

\* the popped entry is a TrailSeries
StepSeries == stack # <<>> /\ IsTrailSeries(Top[1]) /\ Loop(FALSE)

\* the popped entry is a TrailSplit seen for the first time: select_branch
\* is the personality's, so its answer is any boolean
StepSplit ==
  /\ stack # <<>> /\ IsTrailSplit(Top[1]) /\ ~Top[2]
  /\ \E answer \in BOOLEAN : Loop(answer)

\* the popped entry is a TrailSplit whose branch has been walked
StepFollow == stack # <<>> /\ IsTrailSplit(Top[1]) /\ Top[2] /\ Loop(FALSE)

\* the popped entry is the store of an empty trail
StepNone == stack # <<>> /\ Top[1] = None /\ Loop(FALSE)

FollowLoop == StepSeries \/ StepSplit \/ StepFollow \/ StepNone

NextFollow == FollowPath \/ StepSeries \/ StepSplit \/ StepFollow \/ StepNone

SpecFollow == InitTrail /\ [][NextFollow]_vars /\ WF_vars(FollowLoop)

\* ---------------------------------------------------------------- hash1
\* hash1 on its own: tables of one capacity each, keys over two symbols.
MaxCapacity == 16

MaxKeyLen == 2

\* ord("a"), ord("n")
HashSymbols == {97, 110}

HashKeys == UNION {[1..n -> HashSymbols] : n \in 0..MaxKeyLen}

\* DoubleKeyTable(sizes=[capacity])
InitHash ==
  /\ \E capacity \in 1..MaxCapacity : __init__(<<capacity>>, <<>>)
  /\ MountainOrganiser
  /\ EmptyTrail

\* table.hash1(key)
Hash1 ==
  \E key \in HashKeys :
    LET h == hash1(key, table_size(Self))
    IN  /\ last' = [op |-> "hash1", key1 |-> key, err |-> h.err,
                    kind |-> IF h.err = "none" THEN "int" ELSE "raise",
                    ret |-> IF h.err = "none" THEN <<h.value>> ELSE <<>>]
        /\ UNCHANGED <<sizes, internal_sizes, array, count, size_index, prev, nops,
                       mountains, added, trail, stack, personality>>

NextHash == Hash1

SpecHash == InitHash /\ [][NextHash]_vars

\* ------------------------------------------------- vocabulary of the claims
Occupied(t) == {x \in 1..Len(t.array) : t.array[x] # None}

InnerOccupied(inner) == {y \in 1..Len(inner.array) : inner.array[y] # None}

\* The (slot, inner slot) places that hold a pair, and the triples they hold.
Places(t) ==
  UNION {{<<x, y>> : y \in InnerOccupied(t.array[x][2])} : x \in Occupied(t)}

TripleAt(t, pl) ==
  <<t.array[pl[1]][1], t.array[pl[1]][2].array[pl[2]][1],
    t.array[pl[1]][2].array[pl[2]][2]>>

Triples(t) == {TripleAt(t, pl) : pl \in Places(t)}

Stored(t, key1, key2) == \E tr \in Triples(t) : tr[1] = key1 /\ tr[2] = key2

PlacesUnder(t, key1) == {pl \in Places(t) : t.array[pl[1]][1] = key1}

KeySet(t) == {t.array[x][1] : x \in Occupied(t)}

\* ------------------------------------------------------------------ claims

\* C1: a set(k1,k2,v) that completes without error, followed immediately by
\* get(k1,k2), returns v, also when the set triggered outer growth.
C1_RoundTrip ==
  (last.op = "set" /\ last.err = "none") =>
    LET g == __getitem__(Self, last.key1, last.key2)
    IN  g.err = "none" /\ g.ret = <<last.data>>

\* C2: when a set makes the outer table grow, the triples enumerated after
\* the growth are those enumerated before it plus the triple just set:
\* nothing is lost, duplicated or changed.
C2_GrowthPreservesContents ==
  (/\ last.op = "set"
   /\ last.err = "none"
   /\ size_index = prev.size_index + 1
   /\ size_index < Len(TABLE_SIZES)) =>
    /\ Triples(Self) =
         {tr \in Triples(prev) : ~(tr[1] = last.key1 /\ tr[2] = last.key2)}
           \cup {<<last.key1, last.key2, last.data>>}
    /\ __len__(Self) =
         __len__(prev) + (IF Stored(prev, last.key1, last.key2) THEN 0 ELSE 1)

\* C3: in every reachable state every occupied outer slot owns an inner
\* store that holds at least one (k2, v) pair.
C3_InnerStoreNonEmpty ==
  \A x \in Occupied(Self) : InnerOccupied(array[x][2]) # {}

\* C4: get(k1,k2) of a pair that is not stored fails with KeyError and with
\* no other error kind.
C4_GetAbsentNotFound ==
  (last.op = "get" /\ ~Stored(prev, last.key1, last.key2)) =>
    last.err = "KeyError"

\* C5: contains(k1,k2) raises no error and returns a boolean that is True
\* exactly when the pair is stored.
C5_ContainsNeverFails ==
  (last.op = "contains") =>
    /\ last.err = "none"
    /\ last.kind = "bool"
    /\ last.ret = <<Stored(prev, last.key1, last.key2)>>

\* C6: delete(k1,k2) of a pair that is not stored fails with KeyError and
\* leaves the outer array, the occupied-count and every inner store unchanged.
C6_DeleteAbsentNotFound ==
  (last.op = "del" /\ ~Stored(prev, last.key1, last.key2)) =>
    /\ last.err = "KeyError"
    /\ Self = prev

\* C7: a delete that removes the only pair stored under k1 clears the outer
\* slot of k1 and drops the occupied-count by one, so that keys() no longer
\* contains k1 and contains(k1,k2) is False; when other pairs remain under k1
\* the outer slots and the occupied-count are unchanged.
C7_DeletionCleanup ==
  (last.op = "del" /\ last.err = "none") =>
    IF Cardinality(PlacesUnder(prev, last.key1)) = 1
    THEN /\ count = prev.count - 1
         /\ last.key1 \notin KeySet(Self)
         /\ LET c == contains(Self, last.key1, last.key2)
            IN  c.err = "none" /\ c.ret = <<FALSE>>
    ELSE /\ count = prev.count
         /\ Occupied(Self) = Occupied(prev)
         /\ keys(Self) = keys(prev)

\* C8: a set of a pair that is already stored replaces its value in place:
\* get then returns the new value, and len(), the occupied-count and the set
\* of keys() are what they were before the set.
C8_Overwrite ==
  (last.op = "set" /\ Stored(prev, last.key1, last.key2)) =>
    /\ last.err = "none"
    /\ LET g == __getitem__(Self, last.key1, last.key2)
       IN  g.err = "none" /\ g.ret = <<last.data>>
    /\ __len__(Self) = __len__(prev)
    /\ count = prev.count
    /\ KeySet(Self) = KeySet(prev)

\* C9: keys(k1) and values(k1), eager and lazy, signal KeyError when k1 is
\* absent from the table: no empty result, no silent return, no other error.
C9_ScopedAbsentNotFound ==
  (/\ last.op \in {"keys", "values", "iter_keys", "iter_values"}
   /\ last.key1 \notin KeySet(prev)) =>
    last.err = "KeyError"

\* C10: a set of a new k1 that finds no empty outer slot once the schedule
\* is at its end fails with FullError; with the schedule [1, 2] a set that
\* cannot store its key signals FullError and no other error kind.
C10_Exhaustion ==
  /\ (/\ last.op = "set"
      /\ last.key1 \notin KeySet(prev)
      /\ Occupied(prev) = 1..Len(prev.array)
      /\ prev.size_index >= Len(TABLE_SIZES) - 1) =>
       last.err = "FullError"
  /\ (TABLE_SIZES = <<1, 2>> /\ last.op = "set" /\ last.err # "none") =>
       last.err = "FullError"

\* C11: a set or delete that ends with an error leaves the outer array, the
\* occupied-count, the size-index and every inner store exactly as they were
\* before the call: no call half-applies.
C11_NoPartialSuccess ==
  (last.op \in {"set", "del"} /\ last.err # "none") => Self = prev

\* C12: a set made while the outer table is at the last entry of its
\* schedule leaves the capacity as it was and the contents intact (the old
\* triples plus the one set), and every later call still follows its
\* contract: get returns the value of a stored pair and KeyError otherwise,
\* contains returns whether the pair is stored, a set fails with FullError
\* at most and a delete with KeyError at most.
C12_ExhaustedGrowthIsSafe ==
  (/\ last.op = "set"
   /\ last.err = "none"
   /\ prev.size_index = Len(TABLE_SIZES) - 1) =>
    /\ Len(array) = Len(prev.array)
    /\ Triples(Self) =
         {tr \in Triples(prev) : ~(tr[1] = last.key1 /\ tr[2] = last.key2)}
           \cup {<<last.key1, last.key2, last.data>>}
    /\ \A key1 \in K1Keys, key2 \in K2Keys :
         /\ LET g == __getitem__(Self, key1, key2)
            IN  IF Stored(Self, key1, key2)
                THEN g.err = "none" /\ <<key1, key2, g.ret[1]>> \in Triples(Self)
                ELSE g.err = "KeyError"
         /\ LET c == contains(Self, key1, key2)
            IN  c.err = "none" /\ c.ret = <<Stored(Self, key1, key2)>>
         /\ __setitem__(Self, key1, key2, 1).err \in {"none", "FullError"}
         /\ __delitem__(Self, key1, key2).err \in {"none", "KeyError"}

\* the element counts of the inner stores of outer slots x.., added up
RECURSIVE SumInnerLen(_, _)
SumInnerLen(t, x) ==
  IF x > table_size(t) THEN 0
  ELSE IF t.array[x] = None THEN SumInnerLen(t, x + 1)
  ELSE InnerLen(t.array[x][2]) + SumInnerLen(t, x + 1)

\* C13: in every reachable state len() is the number of stored triples, that
\* is the sum over the occupied outer slots of the element count of each
\* inner store, and the number of occupied (outer slot, inner slot) places.
C13_LenIsTotalTriples ==
  /\ __len__(Self) = SumInnerLen(Self, 1)
  /\ __len__(Self) = Cardinality(Places(Self))

\* C13 witness: after growth and a completed delete, two or more triples are
\* stored and their number differs from the number of occupied outer slots.
C13_Witness ==
  /\ last.op = "del"
  /\ last.err = "none"
  /\ size_index = 1
  /\ __len__(Self) >= 2
  /\ __len__(Self) # Cardinality(Occupied(Self))
  /\ __len__(Self) # count

\* C14: in every reachable state the occupied-count field equals the number
\* of occupied outer slots, which is the number of distinct first keys held,
\* and is never negative.
C14_CountIsOccupiedSlots ==
  /\ count = Cardinality(Occupied(Self))
  /\ count = Cardinality(KeySet(Self))
  /\ count >= 0

\* C15: while a larger capacity remains in the schedule, after every set or
\* delete that completes the number of occupied outer slots is at most half
\* the outer capacity.
C15_LoadFactorBound ==
  (/\ last.op \in {"set", "del"}
   /\ last.err = "none"
   /\ size_index < Len(TABLE_SIZES) - 1) =>
    2 * Cardinality(Occupied(Self)) <= table_size(Self)

\* C16: in every reachable state keys() lists what iter_keys() yields and
\* values() what iter_values() yields, in the same order; and for every
\* first key k1 held by the table keys(k1) and values(k1) return the lists
\* that iter_keys(k1) and iter_values(k1) yield.
C16_EnumerationFormsAgree ==
  /\ keys(Self) = iter_keys(Self)
  /\ values(Self) = iter_values(Self)
  /\ \A key1 \in KeySet(Self) :
       /\ LET k == keys_of(Self, key1)
          IN  /\ k.err = "none"
              /\ k.kind = "list"
              /\ k.ret = iter_keys_of(Self, key1).ret
       /\ LET v == values_of(Self, key1)
          IN  /\ v.err = "none"
              /\ v.kind = "list"
              /\ v.ret = iter_values_of(Self, key1).ret

\* the number of entries of the list that are below x
NumBelow(list, x) == Cardinality({i \in 1..Len(list) : tuple_lt(list[i], x)})

\* C17: after any sequence of add_mountains calls the list is in ascending
\* order of (length, name); cur_position(m) returns, for every mountain m
\* added so far, the index at which (m.length, m.name) stands in that order,
\* and raises KeyError for every mountain never added.
C17_OrganiserSorted ==
  /\ \A i \in 1..(Len(mountains) - 1) : ~tuple_lt(mountains[i + 1], mountains[i])
  /\ \A m \in Mountain :
       LET c == cur_position(mountains, m)
       IN  IF m \in added
           THEN /\ c.err = "none"
                /\ mountains[c.ret + 1] = <<m.length, m.name>>
                /\ c.ret = NumBelow(mountains, <<m.length, m.name>>)
           ELSE c.err = "KeyError"

\* C17 witness: three or more mountains were added, two of them of one
\* length, one mountain was never added, and cur_position has just returned
\* an index that is neither the first nor the last of the list.
C17_Witness ==
  /\ Len(mountains) >= 3
  /\ added # Mountain
  /\ \E i \in 1..Len(mountains), j \in 1..Len(mountains) :
       mountains[i][1] = mountains[j][1] /\ mountains[i][2] # mountains[j][2]
  /\ last.op = "cur_position"
  /\ last.err = "none"
  /\ last.ret[1] > 0
  /\ last.ret[1] < Len(mountains) - 1

\* One walk through a trail: at every split reached the next entry of
\* `choices` picks the top branch (TRUE) or the bottom branch (FALSE), the
\* branch is walked before path_follow, and a series gives its mountain
\* before its following trail.  ok is FALSE when the choices run out.
RECURSIVE Walk(_, _)
Walk(store, choices) ==
  IF store = None THEN [mountains |-> <<>>, rest |-> choices, ok |-> TRUE]
  ELSE IF IsTrailSeries(store)
    THEN LET w == Walk(store[3], choices)
         IN  [mountains |-> <<store[2]>> \o w.mountains, rest |-> w.rest, ok |-> w.ok]
  ELSE IF choices = <<>> THEN [mountains |-> <<>>, rest |-> <<>>, ok |-> FALSE]
  ELSE LET b == Walk(IF Head(choices) THEN store[2] ELSE store[3], Tail(choices))
           f == Walk(store[4], b.rest)
       IN  [mountains |-> b.mountains \o f.mountains, rest |-> f.rest,
            ok |-> b.ok /\ f.ok]

\* the combinations of branch choices: one entry for every split reached
BranchChoices(store) ==
  {c \in UNION {[1..n -> BOOLEAN] : n \in 0..MaxNodes} :
     LET w == Walk(store, c) IN w.ok /\ w.rest = <<>>}

Occurrences(list, x) == Cardinality({i \in 1..Len(list) : list[i] = x})

\* C18: length_k_paths(k) returns paths of exactly k mountains, and every
\* list of k mountains occurs in the result once for each combination of
\* branch choices whose walk, in traversal order, gives that list.
C18_LengthKPaths ==
  (last.op = "length_k_paths") =>
    LET choices == BranchChoices(trail)
        walked == {Walk(trail, c).mountains : c \in choices}
        times(path) ==
          Cardinality({c \in choices : Walk(trail, c).mountains = path})
    IN  /\ \A i \in 1..Len(last.ret) :
             Len(last.ret[i]) = last.k /\ last.ret[i] \in walked
        /\ \A path \in walked :
             Occurrences(last.ret, path) = IF Len(path) = last.k THEN times(path) ELSE 0

\* C18 witness: on a trail that starts with a series followed by a split,
\* length_k_paths(k) with k >= 2 has returned some paths and left out others.
C18_Witness ==
  /\ last.op = "length_k_paths"
  /\ last.k >= 2
  /\ IsTrailSeries(trail)
  /\ IsTrailSplit(trail[3])
  /\ Len(last.ret) >= 1
  /\ Len(find_all_paths(trail)) > Len(last.ret)

\* what get(key1, key2) gives on table t: its error kind and its value
GetOutcome(t, key1, key2) ==
  LET g == __getitem__(t, key1, key2) IN <<g.err, g.ret>>

\* C19: the table follows the abstract map of pairs to values.  On the new
\* table every get fails with KeyError; a set that completes makes get of
\* its pair return the value set, a delete that completes makes get of its
\* pair fail with KeyError, and either call leaves get of every other pair
\* as it was, so that a delete never makes another stored pair unretrievable.
C19_AbstractMap ==
  /\ (last.op = "init") =>
       \A key1 \in K1Keys, key2 \in K2Keys :
         GetOutcome(Self, key1, key2) = <<"KeyError", <<>>>>
  /\ (last.op \in {"set", "del"} /\ last.err = "none") =>
       \A key1 \in K1Keys, key2 \in K2Keys :
         GetOutcome(Self, key1, key2) =
           IF key1 = last.key1 /\ key2 = last.key2
           THEN (IF last.op = "set" THEN <<"none", <<last.data>>>>
                 ELSE <<"KeyError", <<>>>>)
           ELSE GetOutcome(prev, key1, key2)

\* the outer positions the probe for key1 visits before it comes to slot x
ProbePath(t, key1, x) ==
  LET h == hash1(key1, table_size(t)).value
      steps == ((x - 1) - h) % table_size(t)
  IN  {(h + d) % table_size(t) : d \in 0..(steps - 1)}

\* C20: in every state reached by set and delete calls, growth included,
\* every occupied outer slot holding k1 is reached by the linear probe that
\* starts at hash1(k1) without passing an empty slot.
C20_ProbeSequence ==
  \A x \in Occupied(Self) :
    /\ hash1(array[x][1], table_size(Self)).err = "none"
    /\ \A position \in ProbePath(Self, array[x][1], x) : array[position + 1] # None

\* the last call was a set that completed and moved the outer table to the
\* next capacity of its schedule
OuterGrew ==
  /\ last.op = "set"
  /\ last.err = "none"
  /\ size_index = prev.size_index + 1
  /\ size_index < Len(TABLE_SIZES)

\* the last call was a set that completed and made the inner store it wrote
\* to grow
InnerGrew ==
  /\ last.op = "set"
  /\ last.err = "none"
  /\ LET p == _linear_probe(prev, last.key1, last.key2, TRUE)
         before == p.t.array[p.position1 + 1][2]
         after == InnerSet(before, last.key2, last.data, INTERNAL_TABLE_SIZES).inner
     IN  after.size_index > before.size_index

\* C21: outer growth moves every (k1, inner store) pair of another k1 than
\* the one set into the new outer array with its inner store exactly as it
\* was (capacity, size-index, contents); growth of an inner store leaves the
\* outer capacity, the outer size-index, the outer occupied-count and the
\* slots of every other k1 unchanged.
C21_IndependentGrowth ==
  /\ OuterGrew =>
       \A x \in Occupied(prev) :
         (prev.array[x][1] # last.key1) =>
           \E y \in Occupied(Self) : array[y] = prev.array[x]
  /\ InnerGrew =>
       /\ table_size(Self) = table_size(prev)
       /\ size_index = prev.size_index
       /\ count = prev.count
       /\ \A x \in Occupied(prev) :
            (prev.array[x][1] # last.key1) => array[x] = prev.array[x]

\* C22: a get or a contains, of a stored pair or not, returning or failing,
\* leaves the outer array, the occupied-count, the size-index and every
\* inner store as they were, so that keys(), values() and len() give the
\* same results after the call as before it.
C22_ReadsArePure ==
  (last.op \in {"get", "contains"}) =>
    /\ Self = prev
    /\ keys(Self) = keys(prev)
    /\ values(Self) = values(prev)
    /\ __len__(Self) = __len__(prev)

\* C23: in every reachable state no two occupied outer slots hold the same
\* first key, so keys() lists every first key once and all the pairs under
\* one first key are in one inner store.
C23_PrimaryKeysUnique ==
  /\ \A x \in Occupied(Self), y \in Occupied(Self) :
       (array[x][1] = array[y][1]) => x = y
  /\ Len(keys(Self)) = Cardinality(KeySet(Self))

FollowDone == last.op = "follow_path" /\ stack = <<>>

\* C24: follow_path terminates on every finite trail, and when it has
\* returned the mountains handed to add_mountain are, in order, those of the
\* walk that at a series takes the mountain and then the following trail and
\* at a split takes the whole of the branch select_branch chose and only then
\* path_follow, nested splits included, with select_branch asked once for
\* every split reached.
C24_FollowPath ==
  /\ [](FollowDone =>
          LET w == Walk(trail, personality.asked)
          IN  w.ok /\ w.rest = <<>> /\ personality.mountains = w.mountains)
  /\ (last.op = "follow_path") ~> FollowDone

\* C24 witness: follow_path has returned on a trail that starts with a split
\* whose top branch and path_follow each hold one mountain, the two being
\* different: select_branch answered once, for the top branch, and the
\* mountain of the branch was added before the mountain of path_follow.
C24_Witness ==
  /\ FollowDone
  /\ IsTrailSplit(trail) /\ IsTrailSeries(trail[2]) /\ IsTrailSeries(trail[4])
  /\ trail[2][2] # trail[4][2]
  /\ personality.asked = <<TRUE>>
  /\ personality.mountains = <<trail[2][2], trail[4][2]>>

\* C25: at every positive capacity and for every key, the empty one included,
\* hash1 returns without raising an error an index in 0..capacity-1, and the
\* index is the one the recurrence gives for that key and that capacity.
C25_Hash1Total ==
  (last.op = "hash1") =>
    /\ last.err = "none"
    /\ last.ret[1] \in 0..(table_size(Self) - 1)
    /\ last.ret[1] = hash1(last.key1, table_size(Self)).value
====
